---- MODULE Spec2Model ----
(***************************************************************************)
(* Model of src/main.py: the /ask endpoint of the YouTube topic timestamp  *)
(* finder.  Text is a string read character by character (At, Slice), so   *)
(* that searching, splitting, padding and trimming are computed and not    *)
(* assumed.  A function that can raise returns a record [ok, val, msg]:    *)
(* ok = FALSE is the exception and msg its text.                           *)
(***************************************************************************)
EXTENDS Integers, Sequences, FiniteSets, TLC

VARIABLES
    token,       \* os.environ.get("AIPIPE_TOKEN") is set (main.py:336)
    pc,          \* position of the ask handler (main.py:401-421)
    request,     \* AskRequest: video_url, topic (main.py:25-27)
    video_id,    \* local of ask (main.py:403)
    calls,       \* labels of the strategies invoked by get_transcript, in order
    errors,      \* local errors of get_transcript (main.py:289)
    transcript,  \* result of get_transcript, local of ask (main.py:408)
    llm_calls,   \* calls of client.chat.completions.create for this request
    llm_reply,     \* what the last of these calls did (main.py:373-379)
    response,    \* what ask answered: status, timestamp, video_url, topic
    fn,          \* the function a direct call exercises
    arg,         \* its argument
    res          \* its result

vars == <<token, pc, request, video_id, calls, errors, transcript, llm_calls,
          llm_reply, response, fn, arg, res>>

askVars == <<token, pc, request, video_id, calls, errors, transcript,
             llm_calls, llm_reply, response>>

callVars == <<fn, arg, res>>

----------------------------------------------------------------------------
(* Results and exceptions *)

\* a returned string / a raised exception of a function that returns a string
Ok(v) == [ok |-> TRUE, val |-> v, msg |-> ""]

Err(m) == [ok |-> FALSE, val |-> "", msg |-> m]

\* a returned list / a raised exception of a function that returns a list
OkList(v) == [ok |-> TRUE, val |-> v, msg |-> ""]

ErrList(m) == [ok |-> FALSE, val |-> <<>>, msg |-> m]

----------------------------------------------------------------------------
(* Characters and strings *)

Digits == {"0", "1", "2", "3", "4", "5", "6", "7", "8", "9"}

Upper == {"A", "B", "C", "D", "E", "F", "G", "H", "I", "J", "K", "L", "M",
          "N", "O", "P", "Q", "R", "S", "T", "U", "V", "W", "X", "Y", "Z"}

Lower == {"a", "b", "c", "d", "e", "f", "g", "h", "i", "j", "k", "l", "m",
          "n", "o", "p", "q", "r", "s", "t", "u", "v", "w", "x", "y", "z"}

\* the character class [0-9A-Za-z_-]
IdChars == Digits \cup Upper \cup Lower \cup {"_", "-"}

\* str.isspace for the characters of the model
Whitespace == {" "}

Min(a, b) == IF a < b THEN a ELSE b

\* the character s[i], i counted from 1
At(s, i) == SubSeq(s, i, i)

\* s[i:i+n] of Python, i counted from 1
Slice(s, i, n) == SubSeq(s, i, Min(Len(s), i + n - 1))

\* s[i:] of Python, i counted from 1
From(s, i) == SubSeq(s, i, Len(s))

\* the literal lit stands at position i of s
LitAt(s, i, lit) == i >= 1 /\ i + Len(lit) - 1 <= Len(s) /\ Slice(s, i, Len(lit)) = lit

\* n characters of the class cls stand at position i of s
RunAt(s, i, n, cls) ==
    i >= 1 /\ i + n - 1 <= Len(s) /\ \A j \in i..(i + n - 1) : At(s, j) \in cls

\* every character of s is of the class cls
AllIn(s, cls) == \A j \in 1..Len(s) : At(s, j) \in cls

\* the least member of the set S of positions, or 0 when there is none
FirstPos(S) == IF S = {} THEN 0 ELSE CHOOSE i \in S : \A j \in S : i <= j

\* lit in s
Contains(s, lit) == \E i \in 1..Len(s) : LitAt(s, i, lit)

\* str.startswith
StartsWith(s, lit) == LitAt(s, 1, lit)

RECURSIVE LStrip(_)
LStrip(s) == IF s # "" /\ At(s, 1) \in Whitespace THEN LStrip(From(s, 2)) ELSE s

RECURSIVE RStrip(_)
RStrip(s) ==
    IF s # "" /\ At(s, Len(s)) \in Whitespace THEN RStrip(SubSeq(s, 1, Len(s) - 1)) ELSE s

\* str.strip()
Strip(s) == LStrip(RStrip(s))

\* str.split(sep) for a one-character separator: always at least one part
RECURSIVE Split(_, _)
Split(s, sep) ==
    LET p == FirstPos({i \in 1..Len(s) : At(s, i) = sep})
    IN  IF p = 0 THEN <<s>>
        ELSE <<SubSeq(s, 1, p - 1)>> \o Split(From(s, p + 1), sep)

\* str.replace(old, new): the occurrences of old, left to right, not overlapping
RECURSIVE Replace(_, _, _)
Replace(s, old, new) ==
    IF s = "" THEN ""
    ELSE IF StartsWith(s, old) THEN new \o Replace(From(s, Len(old) + 1), old, new)
    ELSE At(s, 1) \o Replace(From(s, 2), old, new)

RECURSIVE Zeros(_)
Zeros(n) == IF n <= 0 THEN "" ELSE "0" \o Zeros(n - 1)

\* str.zfill(width): zeros go after a leading sign
zfill(s, width) ==
    IF Len(s) >= width THEN s
    ELSE IF s # "" /\ At(s, 1) \in {"+", "-"}
         THEN At(s, 1) \o Zeros(width - Len(s)) \o From(s, 2)
    ELSE Zeros(width - Len(s)) \o s

----------------------------------------------------------------------------
(* extract_video_id *)

IdLen == 11

\* no match of re.search; no pattern of the program matches the empty string
NoMatch == ""

\* re.search(r"(?:v=|\/)([0-9A-Za-z_-]{11}).*", url): group 1 or NoMatch
SearchPattern1(url) ==
    LET at(i) == \/ LitAt(url, i, "v=") /\ RunAt(url, i + 2, IdLen, IdChars)
                 \/ LitAt(url, i, "/") /\ RunAt(url, i + 1, IdLen, IdChars)
        p == FirstPos({i \in 1..Len(url) : at(i)})
    IN  IF p = 0 THEN NoMatch
        ELSE IF LitAt(url, p, "v=") THEN Slice(url, p + 2, IdLen)
        ELSE Slice(url, p + 1, IdLen)

\* re.search(r"youtu\.be\/([0-9A-Za-z_-]{11})", url): group 1 or NoMatch
SearchPattern2(url) ==
    LET lit == "youtu.be/"
        at(i) == LitAt(url, i, lit) /\ RunAt(url, i + Len(lit), IdLen, IdChars)
        p == FirstPos({i \in 1..Len(url) : at(i)})
    IN  IF p = 0 THEN NoMatch ELSE Slice(url, p + Len(lit), IdLen)

\* re.search(r"embed\/([0-9A-Za-z_-]{11})", url): group 1 or NoMatch
SearchPattern3(url) ==
    LET lit == "embed/"
        at(i) == LitAt(url, i, lit) /\ RunAt(url, i + Len(lit), IdLen, IdChars)
        p == FirstPos({i \in 1..Len(url) : at(i)})
    IN  IF p = 0 THEN NoMatch ELSE Slice(url, p + Len(lit), IdLen)

InvalidUrlMsg == "Could not extract video ID from URL"

extract_video_id(url) ==
    IF SearchPattern1(url) # NoMatch THEN Ok(SearchPattern1(url))
    ELSE IF SearchPattern2(url) # NoMatch THEN Ok(SearchPattern2(url))
    ELSE IF SearchPattern3(url) # NoMatch THEN Ok(SearchPattern3(url))
    ELSE Err(InvalidUrlMsg)

----------------------------------------------------------------------------
(* find_timestamp_with_llm: reading the model's reply *)

DefaultTimestamp == "00:00:00"

\* re.search(r"\d{1,2}:\d{2}:\d{2}", raw): group 0 or NoMatch
SearchTimestamp(raw) ==
    LET tail(i) == /\ LitAt(raw, i, ":") /\ RunAt(raw, i + 1, 2, Digits)
                   /\ LitAt(raw, i + 3, ":") /\ RunAt(raw, i + 4, 2, Digits)
        two(i) == RunAt(raw, i, 2, Digits) /\ tail(i + 2)
        one(i) == RunAt(raw, i, 1, Digits) /\ tail(i + 1)
        p == FirstPos({i \in 1..Len(raw) : two(i) \/ one(i)})
    IN  IF p = 0 THEN NoMatch
        ELSE IF two(p) THEN Slice(raw, p, 8)
        ELSE Slice(raw, p, 7)

\* json.loads(raw) on the reply texts of the model.  kind "invalid" is
\* JSONDecodeError; "value" is a JSON value that is no object (a number, a
\* string, null, a list of one string); "object" is a dict, with its
\* "timestamp" entry if any: ts_type is "absent", "str" or "other" (a number
\* or null).
json_loads(raw) ==
    LET n == Len(raw)
        key == "{\"timestamp\":"
        inner == SubSeq(raw, Len(key) + 1, n - 1)
        quoted(s) == /\ Len(s) >= 2 /\ At(s, 1) = "\"" /\ At(s, Len(s)) = "\""
                     /\ \A j \in 2..(Len(s) - 1) : At(s, j) \notin {"\"", "\\"}
        number(s) == s # "" /\ AllIn(s, Digits) /\ (Len(s) = 1 \/ At(s, 1) # "0")
    IN  IF raw = "{}"
        THEN [kind |-> "object", ts_type |-> "absent", ts |-> ""]
        ELSE IF StartsWith(raw, key) /\ n > Len(key) /\ At(raw, n) = "}"
        THEN IF quoted(inner)
             THEN [kind |-> "object", ts_type |-> "str",
                   ts |-> SubSeq(inner, 2, Len(inner) - 1)]
             ELSE IF number(inner) \/ inner = "null"
             THEN [kind |-> "object", ts_type |-> "other", ts |-> ""]
             ELSE [kind |-> "invalid", ts_type |-> "absent", ts |-> ""]
        ELSE IF number(raw) \/ quoted(raw) \/ raw = "null"
                \/ (n >= 2 /\ At(raw, 1) = "[" /\ At(raw, n) = "]"
                    /\ quoted(SubSeq(raw, 2, n - 1)))
        THEN [kind |-> "value", ts_type |-> "absent", ts |-> ""]
        ELSE [kind |-> "invalid", ts_type |-> "absent", ts |-> ""]

\* main.py:381-386: the timestamp read from the reply.  ok = FALSE is no
\* exception yet: result.get returned a value that is no string.
ParseReply(raw) ==
    LET result == json_loads(raw)
    IN  IF result.kind = "object"
        THEN IF result.ts_type = "absent" THEN Ok(DefaultTimestamp)
             ELSE IF result.ts_type = "str" THEN Ok(result.ts)
             ELSE Err("not a str")
        ELSE IF SearchTimestamp(raw) # NoMatch THEN Ok(SearchTimestamp(raw))
        ELSE Ok(DefaultTimestamp)

\* main.py:388-395
Normalize(timestamp) ==
    LET parts == Split(timestamp, ":")
    IN  IF Len(parts) = 2
        THEN "00:" \o zfill(parts[1], 2) \o ":" \o zfill(parts[2], 2)
        ELSE IF Len(parts) = 3
        THEN zfill(parts[1], 2) \o ":" \o zfill(parts[2], 2) \o ":" \o zfill(parts[3], 2)
        ELSE DefaultTimestamp

AttributeErrorMsg == "'int' object has no attribute 'split'"

\* main.py:379-397: from the reply's content to the returned timestamp
TimestampFromReply(content) ==
    LET raw == Strip(content)
        parsed == ParseReply(raw)
    IN  IF parsed.ok THEN Ok(Normalize(parsed.val)) ELSE Err(AttributeErrorMsg)

----------------------------------------------------------------------------
(* Numbers of seconds: a float is kept as its whole seconds and its        *)
(* thousandths, [whole, milli].                                            *)

DigitVal(c) == CHOOSE d \in 0..9 : At("0123456789", d + 1) = c

RECURSIVE ParseNat(_)
ParseNat(s) ==
    IF s = "" THEN 0
    ELSE 10 * ParseNat(SubSeq(s, 1, Len(s) - 1)) + DigitVal(At(s, Len(s)))

\* ms / 1000.0
DivBy1000(ms) == [whole |-> ms \div 1000, milli |-> ms % 1000]

ValueErrorMsg == "could not convert string to float"

\* float(s) for s of the class [\d.]+ : at most one point and a digit, else
\* ValueError
float(s) ==
    LET parts == Split(s, ".")
        frac == IF Len(parts) = 2 THEN parts[2] ELSE ""
    IN  IF Len(parts) > 2 \/ ~(\E j \in 1..Len(s) : At(s, j) \in Digits)
        THEN [ok |-> FALSE, val |-> DivBy1000(0), msg |-> ValueErrorMsg]
        ELSE [ok |-> TRUE,
              val |-> [whole |-> ParseNat(parts[1]),
                       milli |-> ParseNat(Slice(frac \o "000", 1, 3))],
              msg |-> ""]

----------------------------------------------------------------------------
(* The markup scan of main.py:93 and main.py:270 *)

\* the position after the longest run of characters of the class cls that
\* starts at position i of s
RECURSIVE RunEndIn(_, _, _)
RunEndIn(s, i, cls) ==
    IF i <= Len(s) /\ At(s, i) \in cls THEN RunEndIn(s, i + 1, cls) ELSE i

\* the position after the longest run of characters other than stop that
\* starts at position i of s
RECURSIVE RunEndNot(_, _, _)
RunEndNot(s, i, stop) ==
    IF i <= Len(s) /\ At(s, i) # stop THEN RunEndNot(s, i + 1, stop) ELSE i

NoMatchAt == [found |-> FALSE, start |-> "", text |-> "", end |-> 0]

\* <text start="([\d.]+)"[^>]*>([^<]*)</text> matched at position i of s: the
\* two groups and the position after the match
TextMatchAt(s, i) ==
    LET open == "<text start=\""
        a == i + Len(open)
        b == RunEndIn(s, a, Digits \cup {"."})
        c1 == RunEndNot(s, b + 1, ">")
        d == RunEndNot(s, c1 + 1, "<")
    IN  IF /\ LitAt(s, i, open) /\ b > a /\ LitAt(s, b, "\"")
           /\ LitAt(s, c1, ">") /\ LitAt(s, d, "</text>")
        THEN [found |-> TRUE, start |-> SubSeq(s, a, b - 1),
              text |-> SubSeq(s, c1 + 1, d - 1), end |-> d + Len("</text>")]
        ELSE NoMatchAt

\* re.finditer(...) from position i on: the matches, left to right, not
\* overlapping
RECURSIVE FindTexts(_, _)
FindTexts(s, i) ==
    IF i > Len(s) THEN <<>>
    ELSE IF TextMatchAt(s, i).found
         THEN <<TextMatchAt(s, i)>> \o FindTexts(s, TextMatchAt(s, i).end)
    ELSE FindTexts(s, i + 1)

\* main.py:96-97
DecodeEntities(text) ==
    Replace(Replace(Replace(Replace(Replace(Replace(text,
        "&amp;", "&"), "&lt;", "<"), "&gt;", ">"), "&#39;", "'"), "&quot;", "\""),
        "&nbsp;", " ")

\* main.py:273-274: no &nbsp;
DecodeEntitiesMirror(text) ==
    Replace(Replace(Replace(Replace(Replace(text,
        "&amp;", "&"), "&lt;", "<"), "&gt;", ">"), "&#39;", "'"), "&quot;", "\"")

\* main.py:93-97: the matches in text, their second group decoded
DecodedMatches(text) ==
    LET ms == FindTexts(text, 1)
    IN  [i \in 1..Len(ms) |-> [start |-> ms[i].start, text |-> DecodeEntities(ms[i].text)]]

\* main.py:270-274: the matches in text, their second group decoded
DecodedMatchesMirror(text) ==
    LET ms == FindTexts(text, 1)
    IN  [i \in 1..Len(ms) |->
            [start |-> ms[i].start, text |-> DecodeEntitiesMirror(ms[i].text)]]

\* the loop of main.py:93-99 and of main.py:270-276 over the decoded matches
\* ms: the entries, or the ValueError of float
RECURSIVE EntriesOfMatches(_)
EntriesOfMatches(ms) ==
    IF ms = <<>> THEN OkList(<<>>)
    ELSE LET start == float(Head(ms).start)
             text == Head(ms).text
             rest == EntriesOfMatches(Tail(ms))
         IN  IF ~start.ok THEN ErrList(start.msg)
             ELSE IF ~rest.ok THEN rest
             ELSE IF Strip(text) # ""
                  THEN OkList(<<[text |-> Strip(text), start |-> start.val]>> \o rest.val)
             ELSE rest

----------------------------------------------------------------------------
(* fetch_captions_from_tracks.  A track is [languageCode, baseUrl], "" for *)
(* a key that is missing or empty.  The reply to requests.get is           *)
(* [http_ok, json, text]: http_ok = FALSE is an exception of requests.get  *)
(* or raise_for_status; json is what caption_response.json() gives,        *)
(* [kind, events] with kind "invalid" (JSONDecodeError), "value" (JSON     *)
(* that is no object) or "object" (events: its 'events' list, <<>> when    *)
(* the key is missing); text is caption_response.text.  An event is        *)
(* [has_segs, segs, tStartMs]: segs the 'utf8' texts of its segments,      *)
(* tStartMs 0 when the key is missing.                                     *)

NoCaptionsMsg == "No captions available"

NoCaptionUrlMsg == "Could not find caption URL"

UnparseableMsg == "Could not parse captions"

HttpErrorMsg == "429 Client Error: Too Many Requests for url: https://www.youtube.com/"

NoGetMsg == "'list' object has no attribute 'get'"

\* main.py:55-60: the baseUrl of the first track whose languageCode starts
\* with "en", "" (None) when there is none
EnglishUrl(tracks) ==
    LET en == {i \in 1..Len(tracks) : StartsWith(tracks[i].languageCode, "en")}
    IN  IF en = {} THEN ""
        ELSE tracks[CHOOSE i \in en : \A j \in en : i <= j].baseUrl

\* main.py:51-65: the caption URL, or ValueError
SelectCaptionUrl(tracks) ==
    IF tracks = <<>> THEN Err(NoCaptionsMsg)
    ELSE LET caption_url == IF EnglishUrl(tracks) = "" THEN tracks[1].baseUrl
                            ELSE EnglishUrl(tracks)
         IN  IF caption_url = "" THEN Err(NoCaptionUrlMsg) ELSE Ok(caption_url)

\* main.py:68-71
WithFormat(caption_url) ==
    IF Contains(caption_url, "?") THEN caption_url \o "&fmt=json3"
    ELSE caption_url \o "?fmt=json3"

\* ''.join(seg.get('utf8', '') for seg in event['segs'])
RECURSIVE JoinSegs(_)
JoinSegs(segs) == IF segs = <<>> THEN "" ELSE Head(segs) \o JoinSegs(Tail(segs))

\* main.py:79-85: the entries of the events
RECURSIVE EntriesOfEvents(_)
EntriesOfEvents(events) ==
    IF events = <<>> THEN <<>>
    ELSE LET event == Head(events)
             text == JoinSegs(event.segs)
         IN  IF event.has_segs /\ Strip(text) # ""
             THEN <<[text |-> Strip(text), start |-> DivBy1000(event.tStartMs)]>>
                  \o EntriesOfEvents(Tail(events))
             ELSE EntriesOfEvents(Tail(events))

\* main.py:91-104: the markup scan of the body
ParseMarkup(text) ==
    LET scanned == EntriesOfMatches(DecodedMatches(text))
    IN  IF ~scanned.ok THEN scanned
        ELSE IF scanned.val = <<>> THEN ErrList(UnparseableMsg)
        ELSE scanned

\* main.py:76-104: the transcript of a fetched body.  Only JSONDecodeError is
\* caught: caption_data.get on a JSON value that is no object raises
\* AttributeError out of the function.
ParseCaptions(reply) ==
    IF reply.json.kind = "value" THEN ErrList(NoGetMsg)
    ELSE IF reply.json.kind = "object" /\ EntriesOfEvents(reply.json.events) # <<>>
    THEN OkList(EntriesOfEvents(reply.json.events))
    ELSE ParseMarkup(reply.text)

\* main.py:49-104.  gets: the URLs requested with requests.get
fetch_captions_from_tracks(caption_tracks, reply) ==
    LET url == SelectCaptionUrl(caption_tracks)
        parsed == ParseCaptions(reply)
    IN  IF ~url.ok
        THEN [ok |-> FALSE, val |-> <<>>, msg |-> url.msg, gets |-> <<>>]
        ELSE IF ~reply.http_ok
        THEN [ok |-> FALSE, val |-> <<>>, msg |-> HttpErrorMsg,
              gets |-> <<WithFormat(url.val)>>]
        ELSE [ok |-> parsed.ok, val |-> parsed.val, msg |-> parsed.msg,
              gets |-> <<WithFormat(url.val)>>]

----------------------------------------------------------------------------
(* The five strategies of get_transcript *)

Labels == <<"yt-api", "android", "ios", "tv", "3rd-party">>

\* main.py:293-295: the library's outcome lib is [ok, val, msg]; the
\* snippets are copied one by one
Strategy_yt_api(lib) ==
    IF lib.ok
    THEN OkList([i \in 1..Len(lib.val) |->
                    [text |-> lib.val[i].text, start |-> lib.val[i].start]])
    ELSE ErrList(lib.msg)

\* main.py:107-148, 151-191, 194-229: the three Innertube clients differ in
\* the payload and the headers they send only.  player is the reply to
\* requests.post: [http_ok, status, reason, captionTracks].
get_transcript_innertube(player, reply) ==
    IF ~player.http_ok THEN ErrList(HttpErrorMsg)
    ELSE IF player.status = "ERROR"
    THEN ErrList("Video unavailable: " \o player.reason)
    ELSE LET got == fetch_captions_from_tracks(player.captionTracks, reply)
         IN  [ok |-> got.ok, val |-> got.val, msg |-> got.msg]

\* main.py:250-257: the entries of kome.ai's data, [kind, items] with kind
\* "list", "dict" (items: its 'transcript' list, has_transcript says whether
\* the key is there) and items of [has_text, text, has_start, start]; an
\* exception (of float here) is ok = FALSE
RECURSIVE KomeEntries(_, _)
KomeEntries(items, as_list) ==
    IF items = <<>> THEN OkList(<<>>)
    ELSE LET item == Head(items)
             start == IF item.has_start THEN float(item.start)
                      ELSE [ok |-> TRUE, val |-> DivBy1000(0), msg |-> ""]
             take == item.has_text /\ (item.has_start \/ ~as_list)
             rest == KomeEntries(Tail(items), as_list)
         IN  IF take /\ ~start.ok THEN ErrList(start.msg)
             ELSE IF ~rest.ok THEN rest
             ELSE IF take
                  THEN OkList(<<[text |-> item.text, start |-> start.val]>> \o rest.val)
             ELSE rest

\* main.py:243-261: the transcript of the first mirror, <<>> when the code
\* goes on to the second.  kome is [raised, status_code, data].
Mirror1(kome) ==
    IF kome.raised \/ kome.status_code # 200 THEN <<>>
    ELSE IF kome.data.kind = "list" THEN KomeEntries(kome.data.items, TRUE).val
    ELSE IF kome.data.kind = "dict" /\ kome.data.has_transcript
    THEN KomeEntries(kome.data.items, FALSE).val
    ELSE <<>>

\* main.py:264-280: the transcript of the second mirror, <<>> when the code
\* goes on.  yt is [raised, status_code, text].
Mirror2(yt) ==
    IF yt.raised \/ yt.status_code # 200 THEN <<>>
    ELSE EntriesOfMatches(DecodedMatchesMirror(yt.text)).val

MirrorsFailedMsg == "Third-party transcript APIs failed"

\* main.py:232-282
get_transcript_third_party(kome, yt) ==
    IF Mirror1(kome) # <<>> THEN OkList(Mirror1(kome))
    ELSE IF Mirror2(yt) # <<>> THEN OkList(Mirror2(yt))
    ELSE ErrList(MirrorsFailedMsg)

\* f"{label}: {str(e)[:50]}" of main.py:297, 303, 309, 315, 321
Summary(label, msg) == label \o ": " \o Slice(msg, 1, 50)

\* '; '.join(errors)
RECURSIVE Join(_, _)
Join(parts, sep) ==
    IF parts = <<>> THEN ""
    ELSE IF Len(parts) = 1 THEN parts[1]
    ELSE parts[1] \o sep \o Join(Tail(parts), sep)

\* main.py:324
AllFailedMsg(errs) == "All transcript methods failed: " \o Join(errs, "; ")

----------------------------------------------------------------------------
(* What the outside world can answer *)

MaxTracks == 2

MaxEvents == 2

SeqsUpTo(S, n) == UNION {[1..k -> S] : k \in 0..n}

Tracks ==
    { [languageCode |-> "en", baseUrl |-> "c/en?v=1"],
      [languageCode |-> "en-US", baseUrl |-> "c/us"],
      [languageCode |-> "en", baseUrl |-> ""],
      [languageCode |-> "fr", baseUrl |-> "c/fr"],
      [languageCode |-> "fr", baseUrl |-> ""],
      [languageCode |-> "", baseUrl |-> "c/xx"] }

TrackLists == SeqsUpTo(Tracks, MaxTracks)

Events ==
    { [has_segs |-> TRUE, segs |-> <<"hello">>, tStartMs |-> 1500],
      [has_segs |-> TRUE, segs |-> <<" a", "b ">>, tStartMs |-> 0],
      [has_segs |-> TRUE, segs |-> <<" ", "">>, tStartMs |-> 2000],
      [has_segs |-> FALSE, segs |-> <<>>, tStartMs |-> 347000] }

\* the text of a JSON body stands for itself: no run of the markup scan can
\* stand in a JSON text, where a quote inside a string is escaped
JsonBodies ==
    { [http_ok |-> TRUE, json |-> [kind |-> "object", events |-> evs],
       text |-> "{\"events\":[]}"] : evs \in SeqsUpTo(Events, MaxEvents) }
    \cup { [http_ok |-> TRUE, json |-> [kind |-> "value", events |-> <<>>],
            text |-> "[]"] }

MarkupTexts ==
    { "",
      "<html>Sorry</html>",
      "<text start=\"1.5\">a &amp;amp; b</text>",
      "<text start=\"5\" dur=\"2\">&nbsp; </text>",
      "<text start=\"0.25\" dur=\"1\">it&#39;s</text><text start=\"347\">x</text>",
      "<text start=\"1.2.3\">x</text>" }

TextBodies ==
    { [http_ok |-> TRUE, json |-> [kind |-> "invalid", events |-> <<>>], text |-> t] :
        t \in MarkupTexts }

FailedGet == [http_ok |-> FALSE, json |-> [kind |-> "invalid", events |-> <<>>], text |-> ""]

CaptionReplies == JsonBodies \cup TextBodies \cup {FailedGet}

\* the replies of the Innertube player endpoint
PlayerReplies ==
    { [http_ok |-> FALSE, status |-> "", reason |-> "", captionTracks |-> <<>>],
      [http_ok |-> TRUE, status |-> "ERROR", reason |-> "This video is unavailable",
       captionTracks |-> <<>>] }
    \cup { [http_ok |-> TRUE, status |-> "OK", reason |-> "", captionTracks |-> ts] :
            ts \in { <<>>,
                     <<[languageCode |-> "fr", baseUrl |-> ""]>>,
                     <<[languageCode |-> "fr", baseUrl |-> "c/fr"],
                       [languageCode |-> "en", baseUrl |-> "c/en?v=1"]>> } }

\* the caption bodies the Innertube strategies of a request can meet
AskCaptionReplies ==
    { r \in CaptionReplies :
        /\ Len(r.json.events) <= 1
        /\ r.text \in {"", "[]", "{\"events\":[]}", "<text start=\"1.5\">a &amp;amp; b</text>"} }

\* what YouTubeTranscriptApi().fetch can do
LibraryOutcomes ==
    { ErrList("Could not retrieve a transcript for the video: YouTube is blocking requests from your IP"),
      ErrList("Subtitles are disabled"),
      OkList(<<>>),
      OkList(<<[text |-> "intro", start |-> DivBy1000(0)],
               [text |-> "topic X here", start |-> DivBy1000(347000)]>>) }

KomeReplies ==
    { [raised |-> TRUE, status_code |-> 0, data |-> [kind |-> "none", has_transcript |-> FALSE, items |-> <<>>]],
      [raised |-> FALSE, status_code |-> 403, data |-> [kind |-> "none", has_transcript |-> FALSE, items |-> <<>>]],
      [raised |-> FALSE, status_code |-> 200, data |-> [kind |-> "list", has_transcript |-> FALSE,
          items |-> <<[has_text |-> TRUE, text |-> "k1", has_start |-> TRUE, start |-> "2.5"],
                      [has_text |-> TRUE, text |-> "k2", has_start |-> FALSE, start |-> ""]>>]],
      [raised |-> FALSE, status_code |-> 200, data |-> [kind |-> "list", has_transcript |-> FALSE,
          items |-> <<[has_text |-> TRUE, text |-> "k1", has_start |-> TRUE, start |-> "1.2.3"]>>]],
      [raised |-> FALSE, status_code |-> 200, data |-> [kind |-> "dict", has_transcript |-> TRUE,
          items |-> <<[has_text |-> TRUE, text |-> "k3", has_start |-> FALSE, start |-> ""]>>]],
      [raised |-> FALSE, status_code |-> 200, data |-> [kind |-> "dict", has_transcript |-> FALSE,
          items |-> <<>>]] }

MirrorReplies ==
    { [raised |-> TRUE, status_code |-> 0, text |-> ""],
      [raised |-> FALSE, status_code |-> 503, text |-> "<text start=\"1.5\">a &amp;amp; b</text>"],
      [raised |-> FALSE, status_code |-> 200, text |-> "<html>Sorry</html>"],
      [raised |-> FALSE, status_code |-> 200, text |-> "<text start=\"5\" dur=\"2\">&nbsp; </text>"] }

\* what client.chat.completions.create can do: raise, or answer a content
ModelOutcomes ==
    { Err("Error code: 502 - upstream model unavailable") }
    \cup { Ok(c) : c \in
            { "{\"timestamp\":\"00:05:47\"}",
              " {\"timestamp\":\"5:47\"} ",
              "{\"timestamp\":\"1:2:3\"}",
              "{\"timestamp\":\"123:04:05\"}",
              "{\"timestamp\":\"1:2:3:4\"}",
              "{\"timestamp\":\"abc\"}",
              "{\"timestamp\":\"ab:cd\"}",
              "{\"timestamp\":\"-1:2\"}",
              "{\"timestamp\":\"\"}",
              "{\"timestamp\":347}",
              "{\"timestamp\":null}",
              "{}",
              "347",
              "[\"0:05:47\"]",
              "The topic starts at 123:45:067.",
              "Sorry, I cannot tell",
              "" } }

VideoUrls ==
    { "https://www.youtube.com/watch?v=dQw4w9WgXcQ",
      "https://youtu.be/dQw4w9WgXcQ",
      "https://example.com/video",
      "" }

Topics == {"topic X"}

Requests == [video_url : VideoUrls, topic : Topics]

----------------------------------------------------------------------------
(* POST /ask, main.py:400-421.  The handler stops at each call of the      *)
(* outside world: pc is "idle" before the first request, "extract" once a  *)
(* request is in, the label of the strategy get_transcript tries next,     *)
(* "locate" before find_timestamp_with_llm, and "done" once answered.      *)

NoResponse == [status |-> 0, detail |-> "", timestamp |-> "", video_url |-> "", topic |-> ""]

NoReply == [ok |-> FALSE, val |-> "", msg |-> "no call"]

\* HttpError with the status of the locator's handler (main.py:415) in
\* every handler
HttpErrorAlways500(status, detail) ==
    [status |-> 500, detail |-> detail, timestamp |-> "", video_url |-> "", topic |-> ""]

\* raise HTTPException(status_code=status, detail=detail)
HttpError(status, detail) ==
    [status |-> status, detail |-> detail, timestamp |-> "", video_url |-> "", topic |-> ""]

\* main.py:417-421
AskResponse(timestamp, req) ==
    [status |-> 200, detail |-> "", timestamp |-> timestamp,
     video_url |-> req.video_url, topic |-> req.topic]

\* CredentialMissing without the check of main.py:337
CredentialNeverMissing(tok) == FALSE

\* main.py:336-338
CredentialMissing(tok) == ~tok

NoTokenMsg == "AIPIPE_TOKEN environment variable is not set"

Receive ==
    /\ pc \in {"idle", "done"}
    /\ \E req \in Requests : request' = req
    /\ pc' = "extract"
    /\ video_id' = ""
    /\ calls' = <<>>
    /\ errors' = <<>>
    /\ transcript' = <<>>
    /\ llm_calls' = 0
    /\ llm_reply' = NoReply
    /\ response' = NoResponse
    /\ UNCHANGED <<token, fn, arg, res>>

\* main.py:402-405
Extract ==
    /\ pc = "extract"
    /\ LET got == extract_video_id(request.video_url)
       IN  IF got.ok
           THEN /\ video_id' = got.val
                /\ pc' = Labels[1]
                /\ UNCHANGED response
           ELSE /\ response' = HttpError(400, "Invalid video URL: " \o got.msg)
                /\ pc' = "done"
                /\ UNCHANGED video_id
    /\ UNCHANGED <<token, request, calls, errors, transcript, llm_calls, llm_reply, fn, arg, res>>

\* AfterFailure with the last strategy left out of the chain
AfterFailureSkippingLast(k) == IF k < Len(Labels) - 1 THEN Labels[k + 1] ELSE "raise"

\* where get_transcript goes after strategy k failed: the next strategy, or
\* "raise" (main.py:324) after the last
AfterFailure(k) == IF k < Len(Labels) THEN Labels[k + 1] ELSE "raise"

\* AfterSuccess without the return: the chain goes on as after a failure
AfterSuccessFallingThrough(k) == IF k < Len(Labels) THEN Labels[k + 1] ELSE "raise"

\* where get_transcript goes after strategy k returned: back to ask
\* (main.py:295, 301, 307, 313, 319)
AfterSuccess(k) == "locate"

\* one try/except of main.py:291-321 around strategy k with outcome got, and
\* main.py:324, 409-410 when the last strategy failed
Tried(k, got) ==
    /\ calls' = Append(calls, Labels[k])
    /\ IF got.ok
       THEN /\ transcript' = got.val
            /\ pc' = AfterSuccess(k)
            /\ UNCHANGED <<errors, response>>
       ELSE LET errs == Append(errors, Summary(Labels[k], got.msg))
            IN  /\ errors' = errs
                /\ UNCHANGED transcript
                /\ IF AfterFailure(k) = "raise"
                   THEN /\ response' = HttpError(400, "Transcript error: " \o AllFailedMsg(errs))
                        /\ pc' = "done"
                   ELSE /\ pc' = AfterFailure(k)
                        /\ UNCHANGED response

\* main.py:291-297
TryYtApi ==
    /\ pc = "yt-api"
    /\ \E lib \in LibraryOutcomes : Tried(1, Strategy_yt_api(lib))
    /\ UNCHANGED <<token, request, video_id, llm_calls, llm_reply, fn, arg, res>>

\* main.py:299-303
TryAndroid ==
    /\ pc = "android"
    /\ \E player \in PlayerReplies, body \in AskCaptionReplies :
          Tried(2, get_transcript_innertube(player, body))
    /\ UNCHANGED <<token, request, video_id, llm_calls, llm_reply, fn, arg, res>>

\* main.py:305-309
TryIos ==
    /\ pc = "ios"
    /\ \E player \in PlayerReplies, body \in AskCaptionReplies :
          Tried(3, get_transcript_innertube(player, body))
    /\ UNCHANGED <<token, request, video_id, llm_calls, llm_reply, fn, arg, res>>

\* main.py:311-315
TryTv ==
    /\ pc = "tv"
    /\ \E player \in PlayerReplies, body \in AskCaptionReplies :
          Tried(4, get_transcript_innertube(player, body))
    /\ UNCHANGED <<token, request, video_id, llm_calls, llm_reply, fn, arg, res>>

\* main.py:317-324
TryThirdParty ==
    /\ pc = "3rd-party"
    /\ \E kome \in KomeReplies, yt \in MirrorReplies :
          Tried(5, get_transcript_third_party(kome, yt))
    /\ UNCHANGED <<token, request, video_id, llm_calls, llm_reply, fn, arg, res>>

\* find_timestamp_with_llm, main.py:335-397, for the outcome api of the
\* model call: the returned timestamp or the exception
find_timestamp_with_llm(tok, api) ==
    IF CredentialMissing(tok) THEN Err(NoTokenMsg)
    ELSE IF ~api.ok THEN Err(api.msg)
    ELSE TimestampFromReply(api.val)

\* main.py:412-421
Locate ==
    /\ pc = "locate"
    /\ \E api \in ModelOutcomes :
          LET got == find_timestamp_with_llm(token, api)
          IN  /\ IF CredentialMissing(token)
                 THEN UNCHANGED <<llm_calls, llm_reply>>
                 ELSE llm_calls' = llm_calls + 1 /\ llm_reply' = api
              /\ response' = IF got.ok THEN AskResponse(got.val, request)
                             ELSE HttpError(500, "LLM error: " \o got.msg)
    /\ pc' = "done"
    /\ UNCHANGED <<token, request, video_id, calls, errors, transcript, fn, arg, res>>

Init ==
    /\ token \in BOOLEAN
    /\ pc = "idle"
    /\ request = [video_url |-> "", topic |-> ""]
    /\ video_id = ""
    /\ calls = <<>>
    /\ errors = <<>>
    /\ transcript = <<>>
    /\ llm_calls = 0
    /\ llm_reply = NoReply
    /\ response = NoResponse
    /\ fn = "ask"
    /\ arg = <<>>
    /\ res = <<>>

Next ==
    \/ Receive
    \/ Extract
    \/ TryYtApi
    \/ TryAndroid
    \/ TryIos
    \/ TryTv
    \/ TryThirdParty
    \/ Locate

Spec == Init /\ [][Next]_vars

----------------------------------------------------------------------------
(* Direct calls of extract_video_id and of fetch_captions_from_tracks on   *)
(* inputs a request alone does not produce.  res is <<>> before the call   *)
(* and <<result>> after it.                                                *)

\* what can stand before the id's wrapping
UrlPrefixes ==
    { "", "https://www.youtube.com", "https://m.youtube.com", "https://youtu.be",
      "https://www.youtube-nocookie.com", "https://youtube-nocookie.com",
      "https://www.youtube.com/attribution_link?u=" }

\* the shapes of main.py:38-40 around the id
UrlWrappings == {"/watch?v=", "/", "youtu.be/", "/embed/"}

UrlIds == {"dQw4w9WgXcQ", "-_0Aa9Zz_-x", "abc"}

UrlSuffixes == {"", "&t=42s", "?si=AbCdEfGh"}

UrlInputs == [prefix : UrlPrefixes, wrapping : UrlWrappings, id : UrlIds, suffix : UrlSuffixes]

UrlOf(a) == a.prefix \o a.wrapping \o a.id \o a.suffix

IdleAsk ==
    /\ token = TRUE
    /\ pc = "idle"
    /\ request = [video_url |-> "", topic |-> ""]
    /\ video_id = ""
    /\ calls = <<>>
    /\ errors = <<>>
    /\ transcript = <<>>
    /\ llm_calls = 0
    /\ llm_reply = NoReply
    /\ response = NoResponse

InitUrl ==
    /\ IdleAsk
    /\ fn = "extract_video_id"
    /\ arg \in UrlInputs
    /\ res = <<>>

CallExtractVideoId ==
    /\ fn = "extract_video_id"
    /\ res = <<>>
    /\ res' = <<extract_video_id(UrlOf(arg))>>
    /\ UNCHANGED <<askVars, fn, arg>>

SpecUrl == InitUrl /\ [][CallExtractVideoId]_vars

InitCaptions ==
    /\ IdleAsk
    /\ fn = "fetch_captions_from_tracks"
    /\ arg \in [tracks : TrackLists, reply : CaptionReplies]
    /\ res = <<>>

CallFetchCaptions ==
    /\ fn = "fetch_captions_from_tracks"
    /\ res = <<>>
    /\ res' = <<fetch_captions_from_tracks(arg.tracks, arg.reply)>>
    /\ UNCHANGED <<askVars, fn, arg>>

SpecCaptions == InitCaptions /\ [][CallFetchCaptions]_vars

----------------------------------------------------------------------------
(* The claims *)

\* the request in hand passed video-id extraction
Extracted == extract_video_id(request.video_url).ok

\* get_transcript raised: ask answered 400 with its message
TranscriptFailed ==
    response.status = 400 /\ StartsWith(response.detail, "Transcript error: ")

\* get_transcript returned: one of the strategies invoked did not fail
TranscriptReturned == Len(calls) = Len(errors) + 1

\* C1: the strategies of get_transcript are invoked in the fixed order
\* yt-api, android, ios, tv, 3rd-party, each at most once; strategy k is
\* invoked only when every strategy before it has been invoked and has
\* failed, and once a strategy has succeeded none is invoked any more.
C1_ChainOrder ==
    /\ calls = SubSeq(Labels, 1, Len(calls))
    /\ Len(errors) \in {Len(calls) - 1, Len(calls)}
    /\ \A j \in 1..Len(errors) : StartsWith(errors[j], Labels[j] \o ": ")
    /\ \A k \in 1..Len(Labels) :
          pc = Labels[k] => Len(calls) = k - 1 /\ Len(errors) = k - 1
    /\ TranscriptReturned => pc \in {"locate", "done"}

C1_Invocation ==
    calls' # calls =>
        \/ calls' = <<>>
        \/ /\ Len(errors) = Len(calls)
           /\ Len(calls) < Len(Labels)
           /\ calls' = Append(calls, Labels[Len(calls) + 1])

C1_SequentialFallback == []C1_ChainOrder /\ [][C1_Invocation]_vars

\* C1 witness: the third strategy succeeded after the first two failed
C1_Witness ==
    pc = "locate" /\ calls = <<"yt-api", "android", "ios">> /\ Len(errors) = 2

\* C2: get_transcript fails exactly when all five strategies failed; then no
\* transcript is returned, the locator is not called, and the message holds
\* one summary per strategy, labelled in chain order, each message cut to 50
\* characters; while a strategy succeeded no strategy's failure reaches the
\* caller.
C2_FailsIffAllFail ==
    /\ TranscriptFailed <=> Len(errors) = Len(Labels)
    /\ TranscriptFailed =>
          /\ pc = "done"
          /\ transcript = <<>>
          /\ llm_calls = 0
          /\ calls = Labels
          /\ \A j \in 1..Len(Labels) :
                /\ StartsWith(errors[j], Labels[j] \o ": ")
                /\ Len(errors[j]) <= Len(Labels[j]) + 2 + 50
          /\ response.detail =
                "Transcript error: All transcript methods failed: "
                \o errors[1] \o "; " \o errors[2] \o "; " \o errors[3] \o "; "
                \o errors[4] \o "; " \o errors[5]
    /\ TranscriptReturned => ~TranscriptFailed /\ response.status # 400

\* C2 witness: all five strategies failed and ask answered 400
C2_Witness == TranscriptFailed /\ Len(errors) = 5 /\ Len(errors[1]) = Len("yt-api: ") + 50

\* C3: get_transcript never returns an empty transcript, so the locator is
\* never started on one.
C3_NoEmptySuccess ==
    /\ TranscriptReturned => transcript # <<>>
    /\ pc = "locate" => transcript # <<>>
    /\ llm_calls > 0 => transcript # <<>>

\* C3 witness: a strategy returned a transcript
C3_Witness == pc = "locate" /\ TranscriptReturned

\* the locator failed for the request in hand
LocatorFailed == ~find_timestamp_with_llm(token, llm_reply).ok

\* C4: ask runs extraction, transcript resolution and location in that
\* order and stops at the first stage that fails: 400 exactly when
\* extraction or resolution failed, 500 exactly when the locator failed,
\* else 200 with video_url and topic of the request; no strategy runs after
\* a failed extraction and no model call after a failed extraction or
\* resolution.
C4_Stages ==
    /\ calls # <<>> => Extracted /\ video_id = extract_video_id(request.video_url).val
    /\ llm_calls > 0 => Extracted /\ TranscriptReturned
    /\ pc = "locate" => Extracted /\ TranscriptReturned /\ llm_calls = 0
    /\ pc = "done" =>
          /\ response.status \in {200, 400, 500}
          /\ response.status = 400 <=> (~Extracted \/ Len(errors) = Len(Labels))
          /\ ~Extracted => calls = <<>> /\ llm_calls = 0
          /\ Len(errors) = Len(Labels) => llm_calls = 0
          /\ response.status = 500 <=> (Extracted /\ TranscriptReturned /\ LocatorFailed)
          /\ response.status = 200 =>
                /\ response.video_url = request.video_url
                /\ response.topic = request.topic
                /\ response.timestamp = find_timestamp_with_llm(token, llm_reply).val

\* C4 witness: a request answered 200 after a fallback
C4_Witness == pc = "done" /\ response.status = 200 /\ Len(calls) = 4

\* C5: whatever text the model returns, the locator returns a timestamp and
\* ask does not answer 500.
C5_MalformedReplyNeverFails ==
    (pc = "done" /\ transcript # <<>> /\ llm_calls > 0 /\ llm_reply.ok) =>
        /\ TimestampFromReply(llm_reply.val).ok
        /\ response.status = 200

\* C5 witness: a reply that is no JSON and holds no time is answered with
\* the default
C5_Witness ==
    /\ pc = "done" /\ llm_reply = Ok("Sorry, I cannot tell")
    /\ response.status = 200 /\ response.timestamp = DefaultTimestamp

\* three fields between colons, each of two or more decimal digits
IsHHMMSS(t) ==
    LET parts == Split(t, ":")
    IN  /\ Len(parts) = 3
        /\ \A i \in 1..3 : Len(parts[i]) >= 2 /\ AllIn(parts[i], Digits)

\* C6: every timestamp of a 200 response is a normalized HH:MM:SS string.
C6_TimestampNormalized ==
    (response.status = 200 /\ transcript # <<>>) => IsHHMMSS(response.timestamp)

\* C6 witness: the answer 5:47 is returned as 00:05:47
C6_Witness ==
    /\ response.status = 200 /\ llm_reply = Ok(" {\"timestamp\":\"5:47\"} ")
    /\ response.timestamp = "00:05:47"

\* C7, as stated: without the credential no request is accepted, no video id
\* extracted, no strategy invoked and nothing answered.
C7_RefusesToServe ==
    ~token => pc = "idle" /\ video_id = "" /\ calls = <<>> /\ response = NoResponse

\* C7, amended: without the credential the model is never called and no
\* request is answered 200; extraction and the strategies still run, and a
\* request that passes both is answered 500 with the missing-credential
\* message.
C7_FailsAtLocator ==
    ~token =>
        /\ llm_calls = 0
        /\ response.status # 200
        /\ (pc = "done" /\ Extracted /\ TranscriptReturned) =>
              /\ response.status = 500
              /\ response.detail = "LLM error: " \o NoTokenMsg

\* C7 witness: without the credential a request got through the strategies
\* and was answered 500
C7_Witness == ~token /\ pc = "done" /\ calls # <<>> /\ response.status = 500

\* C8: for an 11-character id, every recognized wrapping yields that id; a
\* returned id is 11 characters of [0-9A-Za-z_-]; the call fails exactly when
\* none of the three patterns matches.
C8_SameIdForEveryWrapping ==
    (fn = "extract_video_id" /\ res # <<>>) =>
        LET url == UrlOf(arg)
            got == res[1]
        IN  /\ (Len(arg.id) = IdLen /\ AllIn(arg.id, IdChars)) => got = Ok(arg.id)
            /\ got.ok => Len(got.val) = IdLen /\ AllIn(got.val, IdChars)
            /\ ~got.ok <=> /\ SearchPattern1(url) = NoMatch
                           /\ SearchPattern2(url) = NoMatch
                           /\ SearchPattern3(url) = NoMatch

\* C8 witness: the youtu.be wrapping of an id yields the id
C8_Witness ==
    /\ fn = "extract_video_id" /\ res = <<Ok("dQw4w9WgXcQ")>>
    /\ UrlOf(arg) = "https://youtu.be/dQw4w9WgXcQ?si=AbCdEfGh"

\* the positions of the tracks whose languageCode starts with "en"
EnglishTracks(tracks) ==
    {i \in 1..Len(tracks) : StartsWith(tracks[i].languageCode, "en")}

\* C9: an empty track list fails with 'No captions available' before any
\* fetch; with an English track the URL fetched is that of the first English
\* track; the first track's URL is used only when no track is English; the
\* call fails with 'Could not find caption URL' only when no track has a URL.
C9_TrackSelection ==
    (fn = "fetch_captions_from_tracks" /\ res # <<>>) =>
        LET tracks == arg.tracks
            got == res[1]
            en == EnglishTracks(tracks)
            first == CHOOSE i \in en : \A j \in en : i <= j
        IN  /\ tracks = <<>> => ~got.ok /\ got.msg = NoCaptionsMsg /\ got.gets = <<>>
            /\ (en # {} /\ got.gets # <<>>) =>
                  got.gets = <<WithFormat(tracks[first].baseUrl)>>
            /\ (tracks # <<>> /\ got.gets = <<WithFormat(tracks[1].baseUrl)>>) =>
                  (en = {} \/ 1 \in en)
            /\ (~got.ok /\ got.msg = NoCaptionUrlMsg) =>
                  \A i \in 1..Len(tracks) : tracks[i].baseUrl = ""

\* C9 witness: the English track is second and its URL is the one fetched
C9_Witness ==
    /\ fn = "fetch_captions_from_tracks" /\ res # <<>>
    /\ arg.tracks = <<[languageCode |-> "fr", baseUrl |-> "c/fr"],
                      [languageCode |-> "en-US", baseUrl |-> "c/us"]>>
    /\ res[1].gets = <<"c/us?fmt=json3">>

\* the positions of the events that have segments whose joined text is not
\* blank
UsableEvents(events) ==
    {i \in 1..Len(events) : events[i].has_segs /\ Strip(JoinSegs(events[i].segs)) # ""}

\* the k-th least member of the set S of numbers
RECURSIVE Kth(_, _)
Kth(S, k) ==
    LET least == CHOOSE i \in S : \A j \in S : i <= j
    IN  IF k = 1 THEN least ELSE Kth(S \ {least}, k - 1)

\* the markup scan finds an entry in the text
MarkupYields(text) ==
    \E i \in 1..Len(text) :
        TextMatchAt(text, i).found /\ Strip(DecodeEntities(TextMatchAt(text, i).text)) # ""

\* C10: a fetched body that is an object with usable events gives one entry
\* per usable event, in order, with start = tStartMs / 1000; the markup scan
\* is used only when there is none; the call fails with 'Could not parse
\* captions' exactly when neither path yields an entry; no entry has blank
\* text.
C10_CaptionParsing ==
    (fn = "fetch_captions_from_tracks" /\ res # <<>> /\ res[1].gets # <<>> /\ arg.reply.http_ok) =>
        LET body == arg.reply
            got == res[1]
            usable == IF body.json.kind = "object" THEN UsableEvents(body.json.events) ELSE {}
        IN  /\ usable # {} =>
                  /\ got.ok
                  /\ Len(got.val) = Cardinality(usable)
                  /\ \A k \in 1..Len(got.val) :
                        LET event == body.json.events[Kth(usable, k)]
                        IN  /\ got.val[k].text = Strip(JoinSegs(event.segs))
                            /\ 1000 * got.val[k].start.whole + got.val[k].start.milli
                                  = event.tStartMs
            /\ (~got.ok /\ got.msg = UnparseableMsg)
                  <=> (usable = {} /\ ~MarkupYields(body.text))
            /\ got.ok => \A k \in 1..Len(got.val) : Strip(got.val[k].text) # ""

\* C10 witness: two usable events give two entries
C10_Witness ==
    /\ fn = "fetch_captions_from_tracks" /\ res # <<>> /\ res[1].ok
    /\ Len(arg.reply.json.events) = 2 /\ Len(res[1].val) = 2
    /\ res[1].val[1].start = [whole |-> 1, milli |-> 500]

====
